---- MODULE Spec2Model ----
(***************************************************************************)
(* A model of plot_utils.py: the axis normaliser set_axes_equal, the       *)
(* folded-surface renderers plot_reference_configuration and               *)
(* plot_custom_configuration, and the planar diagram plot_crease_pattern.  *)
(*                                                                         *)
(* Numbers.  Floats are modelled by exact integers.  Axis limits are       *)
(* chosen so that the halvings of set_axes_equal (mean, radius) and of the *)
(* renderer (half of size_x) are exact.  Fold angles are counted in        *)
(* quarter turns, so that the rotation matrices have integer entries.      *)
(* Alpha is a percentage.  A Python list or array is a function on         *)
(* 0 .. len-1; a point or a matrix row is a tuple.                         *)
(***************************************************************************)
EXTENDS Integers, Sequences, FiniteSets, TLC

VARIABLES
    crease_pattern,  \* the CreasePattern object handed to the builders
    axes_3d,         \* the Axes3D object: collections, xlim, ylim, zlim
    axes_2d,         \* the 2D Axes object: collections, texts, xlim, ylim, aspect
    last             \* the most recent call: operation, arguments, outcome

vars == <<crease_pattern, axes_3d, axes_2d, last>>

----------------------------------------------------------------------------
(* Bounds of the model.                                                    *)

MaxFaces == 3         \* faces of a crease pattern in Spec
MaxStripFaces == 9    \* faces of a crease pattern in SpecFaces
MaxPlanarFaces == 4   \* faces of a crease pattern in SpecPlanar
MaxAllFaces == 2      \* faces of a crease pattern in SpecAll
MaxForeign == 1       \* collections another part of the program attaches to the 3D axes
MaxPlanarCalls == 2   \* calls of plot_crease_pattern on one 2D axes

----------------------------------------------------------------------------
(* Python lists and numpy helpers.                                         *)

None == "None"

\* Op(v), with v evaluated once
Bind(v, Op(_)) == CHOOSE y \in {Op(x) : x \in {v}} : TRUE

Len0(f) == Cardinality(DOMAIN f)

Append0(f, e) == [k \in 0 .. Len0(f) |-> IF k < Len0(f) THEN f[k] ELSE e]

Abs(n) == IF n < 0 THEN -n ELSE n

Max2(a, b) == IF a >= b THEN a ELSE b

\* n * 0.5 and np.mean of two numbers; exact on the even numbers they meet here
Half(n) == n \div 2

\* one component of a matrix-vector product
RowDot(row, v) == row[1] * v[1] + row[2] * v[2] + row[3] * v[3] + row[4] * v[4]

\* np.dot(composite, v) for a 4x4 matrix and a 4-vector
Dot(M, v) == <<RowDot(M[1], v), RowDot(M[2], v), RowDot(M[3], v), RowDot(M[4], v)>>

Column(B, c) == <<B[1][c], B[2][c], B[3][c], B[4][c]>>

MatRow(row, B) ==
    <<RowDot(row, Column(B, 1)), RowDot(row, Column(B, 2)),
      RowDot(row, Column(B, 3)), RowDot(row, Column(B, 4))>>

MatMul(A, B) == <<MatRow(A[1], B), MatRow(A[2], B), MatRow(A[3], B), MatRow(A[4], B)>>

Identity4 == <<<<1, 0, 0, 0>>, <<0, 1, 0, 0>>, <<0, 0, 1, 0>>, <<0, 0, 0, 1>>>>

----------------------------------------------------------------------------
(* The crease pattern model (an external collaborator of plot_utils.py).   *)
(* A strip of faces of side FaceSide: face i spans x in                    *)
(* [FaceSide*i, FaceSide*(i+1)], fold j is the segment x = FaceSide*(j+1)  *)
(* between face j and face j+1.  A face has 2, 3 or 4 valid corners in a   *)
(* corner array of 4 slots; the unused trailing slots are padding.         *)

FaceSide == 6

CornerSlots == 4

FaceCorners(i, n) ==
    LET a == FaceSide * i
        s == FaceSide
    IN  CASE n = 4 -> [k \in 0 .. CornerSlots - 1 |->
                         <<<<a, 0>>, <<a + s, 0>>, <<a + s, s>>, <<a, s>>>>[k + 1]]
          [] n = 3 -> [k \in 0 .. CornerSlots - 1 |->
                         <<<<a, 0>>, <<a + s, 0>>, <<a, s>>, <<0, 0>>>>[k + 1]]
          [] OTHER -> [k \in 0 .. CornerSlots - 1 |->
                         <<<<a, 0>>, <<a + s, s>>, <<0, 0>>, <<0, 0>>>>[k + 1]]

FaceCenter(i, n) ==
    IF n = 3 THEN <<FaceSide * i + 2, 2>> ELSE <<FaceSide * i + 3, 3>>

\* corners[i] is the number of valid corners of face i, target[j] the signed
\* target angle of fold j
CreasePattern(nf, fixed, corners, target) ==
    [ num_faces              |-> nf,
      num_folds              |-> nf - 1,
      face_corner_points     |-> [i \in 0 .. nf - 1 |-> FaceCorners(i, corners[i])],
      num_face_corner_points |-> corners,
      face_centers           |-> [i \in 0 .. nf - 1 |-> FaceCenter(i, corners[i])],
      fixed_face             |-> fixed,
      reference_points       |-> [v \in 0 .. 2 * nf + 1 |->
                                    <<FaceSide * (v \div 2), FaceSide * (v % 2)>>],
      p1                     |-> [j \in 0 .. nf - 2 |-> <<FaceSide * (j + 1), 0>>],
      p2                     |-> [j \in 0 .. nf - 2 |-> <<FaceSide * (j + 1), FaceSide>>],
      fold_vector_points     |-> [j \in 0 .. nf - 2 |-> <<2 * (j + 1), 2 * (j + 1) + 1>>],
      fold_angle_target      |-> target ]

\* cosine and sine of a quarter turns
Cos4(a) == <<1, 0, -1, 0>>[(a % 4) + 1]

Sin4(a) == <<0, 1, 0, -1>>[(a % 4) + 1]

\* rotation by a quarter turns about the fold line x = c, z = 0
FoldRotation(c, a) ==
    <<<<Cos4(a), 0, Sin4(a), c - c * Cos4(a)>>,
      <<0, 1, 0, 0>>,
      <<-Sin4(a), 0, Cos4(a), c * Sin4(a)>>,
      <<0, 0, 0, 1>>>>

\* the composite transform of face i: the fixed face is stationary, every
\* other face is carried by the folds between it and the fixed face
RECURSIVE FaceTransform(_, _, _)
FaceTransform(cp, fold_angles, i) ==
    IF i = cp.fixed_face THEN Identity4
    ELSE IF i > cp.fixed_face
         THEN MatMul(FaceTransform(cp, fold_angles, i - 1),
                     FoldRotation(cp.p1[i - 1][1], fold_angles[i - 1]))
         ELSE MatMul(FaceTransform(cp, fold_angles, i + 1),
                     FoldRotation(cp.p1[i][1], -fold_angles[i]))

compute_folding_map(cp, fold_angles) ==
    [i \in 0 .. cp.num_faces - 1 |-> FaceTransform(cp, fold_angles, i)]

----------------------------------------------------------------------------
(* Module namespace and exceptions.                                        *)

\* the names bound in the module's global scope: the imports and the functions
ModuleGlobals ==
    {"matplotlib", "plt", "collections", "ScalarMappable", "Poly3DCollection", "np",
     "set_axes_equal", "plot_reference_configuration", "plot_custom_configuration",
     "plot_crease_pattern"}

\* the exception classes of the builtin scope
BuiltinExceptions ==
    {"BaseException", "Exception", "ArithmeticError", "AttributeError", "IndexError",
     "KeyError", "LookupError", "NameError", "RuntimeError", "TypeError", "ValueError"}

\* what a call that returned has raised
NoException == [type |-> None, msg |-> ""]

\* raise <name>(<msg>): the name is looked up first, and a name bound in neither
\* scope raises NameError in place of the exception that was to be built
Raise(name, msg) ==
    IF name \in ModuleGlobals \cup BuiltinExceptions
    THEN [type |-> name, msg |-> msg]
    ELSE [type |-> "NameError", msg |-> "name '" \o name \o "' is not defined"]

----------------------------------------------------------------------------
(* Colour maps: ScalarMappable(norm = Normalize(vmin, vmax), cmap).        *)

\* the registered palettes the model draws from: a continuous one (a lookup
\* table of 256 entries) and a qualitative one (8 entries)
ColorMaps == {"terrain", "Dark2"}

ColorMapLevels(name) == IF name = "Dark2" THEN 8 ELSE 256

\* Normalize(vmin, vmax)(v) as a fraction <<numerator, denominator>>
Normalize(vmin, vmax, v) == IF vmin = vmax THEN <<0, 1>> ELSE <<v - vmin, vmax - vmin>>

\* to_rgba(v): the entry of the palette's lookup table at int(x * N), x = 1
\* falling into the last entry; the result carries an alpha channel.  A colour
\* is named by its palette and the index of its entry: two entries of one
\* palette are taken to be different colours
to_rgba(vmin, vmax, name, v) ==
    LET x == Normalize(vmin, vmax, v)
        N == ColorMapLevels(name)
        level == IF x[1] = x[2] THEN N - 1 ELSE (x[1] * N) \div x[2]
    IN  [cmap |-> name, level |-> level, a |-> 100]

\* rgba[:3]
Rgb(rgba) == [cmap |-> rgba.cmap, level |-> rgba.level]

\* the index normalised over [0, n - 1]
IndexColorsInclusive(name, n) == [i \in 0 .. n - 1 |-> Rgb(to_rgba(0, n - 1, name, i))]

IndexColors(name, n) == [i \in 0 .. n - 1 |-> Rgb(to_rgba(0, n, name, i))]

----------------------------------------------------------------------------
(* numpy arrays: rows, and the buffer the rows live in.  An array whose    *)
(* base is "face_corner_points" shares memory with the model's array.      *)

\* arr[:n]: basic slicing returns a view of the same memory
Slice(arr, n) == [base |-> arr.base, rows |-> [k \in 0 .. n - 1 |-> arr.rows[k]]]

\* the column added in place, in the memory of arr
HstackInPlace(arr, c) ==
    [base |-> arr.base, rows |-> [k \in DOMAIN arr.rows |-> Append(arr.rows[k], c)]]

\* np.hstack((arr, column of c)): a newly allocated array
Hstack(arr, c) ==
    [base |-> "fresh", rows |-> [k \in DOMAIN arr.rows |-> Append(arr.rows[k], c)]]

\* whether a write to arr lands in the model's face_corner_points
SharesModelMemory(arr) == arr.base = "face_corner_points"

\* for j in range(n): points_4d[j] = np.dot(composite, points_4d[j])
\* Pass j reads and writes row j alone.  The result is the array after the
\* loop, and the model's memory mem behind face_corner_points[i] after it.
TransformCorners(composite, arr, mem, n) ==
    LET rows == [j \in DOMAIN arr.rows |->
                    IF j < n THEN Dot(composite, arr.rows[j]) ELSE arr.rows[j]]
    IN  [arr |-> [base |-> arr.base, rows |-> rows],
         mem |-> IF SharesModelMemory(arr)
                 THEN [j \in DOMAIN mem |->
                          IF j < n THEN <<rows[j][1], rows[j][2]>> ELSE mem[j]]
                 ELSE mem]

\* points_4d[:, :3] + [size_x * 0.5, size_y * 0.5, 0.0] - fixed_face_center
Recenter(rows, size_x, size_y, center) ==
    [k \in DOMAIN rows |->
        <<rows[k][1] + Half(size_x) - center[1],
          rows[k][2] + Half(size_y) - center[2],
          rows[k][3] + 0 - center[3]>>]

\* one pass of the loop over the faces: the polygon of face i, and the
\* memory behind face_corner_points[i] as the pass leaves it
RenderFace(cp, face_map, size_x, size_y, i) ==
    LET n         == cp.num_face_corner_points[i]
        points_2d == Slice([base |-> "face_corner_points",
                            rows |-> cp.face_corner_points[i]], n)
        points_3d == Hstack(points_2d, 0)
        points_4d == Hstack(points_3d, 1)
        composite == face_map[i]
        fixed_face_center == Append(cp.face_centers[cp.fixed_face], 0)
        Polygon(done) ==
            [poly |-> Recenter(done.arr.rows, size_x, size_y, fixed_face_center),
             mem  |-> done.mem]
    IN  Bind(TransformCorners(composite, points_4d, cp.face_corner_points[i], n), Polygon)

\* for i in range(num_faces): ... all_polys.append(...)
\* Pass i reads and writes the corner points of face i alone, so the passes
\* are independent of one another.
RenderFaces(cp, face_map, size_x, size_y) ==
    LET Collect(pass) ==
            [all_polys |-> [i \in 0 .. cp.num_faces - 1 |-> pass[i].poly],
             cp        |-> [cp EXCEPT !.face_corner_points =
                                [i \in 0 .. cp.num_faces - 1 |-> pass[i].mem]]]
    IN  Bind([i \in 0 .. cp.num_faces - 1 |-> RenderFace(cp, face_map, size_x, size_y, i)],
             Collect)

----------------------------------------------------------------------------
(* set_axes_equal                                                          *)

\* the radius taken to be the largest span, not half of it
set_axes_equal_full_span(ax) ==
    LET x_middle == Half(ax.xlim[1] + ax.xlim[2])
        y_middle == Half(ax.ylim[1] + ax.ylim[2])
        z_middle == Half(ax.zlim[1] + ax.zlim[2])
        plot_radius == Max2(Abs(ax.xlim[2] - ax.xlim[1]),
                            Max2(Abs(ax.ylim[2] - ax.ylim[1]), Abs(ax.zlim[2] - ax.zlim[1])))
    IN  [ax EXCEPT !.xlim = <<x_middle - plot_radius, x_middle + plot_radius>>,
                   !.ylim = <<y_middle - plot_radius, y_middle + plot_radius>>,
                   !.zlim = <<z_middle - plot_radius, z_middle + plot_radius>>]

set_axes_equal(ax) ==
    LET x_limits == ax.xlim
        y_limits == ax.ylim
        z_limits == ax.zlim
        x_range  == Abs(x_limits[2] - x_limits[1])
        x_middle == Half(x_limits[1] + x_limits[2])
        y_range  == Abs(y_limits[2] - y_limits[1])
        y_middle == Half(y_limits[1] + y_limits[2])
        z_range  == Abs(z_limits[2] - z_limits[1])
        z_middle == Half(z_limits[1] + z_limits[2])
        plot_radius == Half(Max2(x_range, Max2(y_range, z_range)))
    IN  [ax EXCEPT !.xlim = <<x_middle - plot_radius, x_middle + plot_radius>>,
                   !.ylim = <<y_middle - plot_radius, y_middle + plot_radius>>,
                   !.zlim = <<z_middle - plot_radius, z_middle + plot_radius>>]

----------------------------------------------------------------------------
(* plot_custom_configuration and plot_reference_configuration              *)

DefaultColorMap == "terrain"

DefaultAlpha == 100

DefaultEdges == FALSE

\* the collections left in place
KeepCollections(ax) == ax

\* axes_3d.collections = [], the list being a plain attribute of the axes
ClearCollections(ax) == [ax EXCEPT !.collections = << >>]

\* axes_3d.add_collection3d(poly_collection)
add_collection3d(ax, collection) ==
    [ax EXCEPT !.collections = Append0(ax.collections, collection)]

\* the outcome of one call: the axes and the model as the call leaves them, the
\* exception it raised (NoException when it returned), and the arguments of the calls
\* of compute_folding_map it made
plot_custom_configuration(ax, cp, fold_angles, color_map_name, alpha, edges) ==
    LET size_x == ax.xlim[2]
        size_y == ax.ylim[2]
    IN  IF Len0(fold_angles) # cp.num_folds
        THEN [axes_3d        |-> ax,
              crease_pattern |-> cp,
              raised         |-> Raise("Error", "Invalid number of fold angles"),
              cfm_args       |-> << >>]
        ELSE LET cleared   == ClearCollections(ax)
                 face_map  == compute_folding_map(cp, fold_angles)
                 Finish(faces) ==
                     LET poly_collection ==
                             [kind      |-> "Poly3DCollection",
                              verts     |-> faces.all_polys,
                              facecolor |-> IndexColors(color_map_name, cp.num_faces),
                              alpha     |-> alpha,
                              zsort     |-> "max",
                              edgecolor |-> IF edges THEN "k" ELSE None]
                     IN  [axes_3d        |-> add_collection3d(cleared, poly_collection),
                          crease_pattern |-> faces.cp,
                          raised         |-> NoException,
                          cfm_args       |-> <<fold_angles>>]
             IN  Bind(RenderFaces(cp, face_map, size_x, size_y), Finish)

\* one angle per face
ReferenceFoldAnglesPerFace(cp) == [j \in 0 .. cp.num_faces - 1 |-> 0]

\* np.array([0.0 for _ in range(crease_pattern.num_folds)])
ReferenceFoldAngles(cp) == [j \in 0 .. cp.num_folds - 1 |-> 0]

plot_reference_configuration(ax, cp) ==
    plot_custom_configuration(ax, cp, ReferenceFoldAngles(cp),
                              DefaultColorMap, DefaultAlpha, DefaultEdges)

----------------------------------------------------------------------------
(* plot_crease_pattern                                                     *)

m_color == <<1, 0, 0>>

v_color == <<0, 0, 1>>

b_color == <<0, 0, 0>>

\* a flat fold taken for a valley fold
AssignmentColorNonStrict(target) ==
    IF target <= 0 THEN v_color
    ELSE IF target > 0 THEN m_color
    ELSE b_color

\* the default colour of a fold, by the sign of its target angle
AssignmentColor(target) ==
    IF target < 0 THEN v_color
    ELSE IF target > 0 THEN m_color
    ELSE b_color

\* if color_map_name: ... else: ...
FoldColors(cp, color_map_name) ==
    IF color_map_name # None /\ color_map_name # ""
    THEN IndexColors(color_map_name, cp.num_folds)
    ELSE [i \in 0 .. cp.num_folds - 1 |-> AssignmentColor(cp.fold_angle_target[i])]

\* zip(p1, p2) stops at the shorter of the two
ZipLen(cp) == IF Len0(cp.p1) <= Len0(cp.p2) THEN Len0(cp.p1) ELSE Len0(cp.p2)

\* the two extents exchanged
AspectValueInverse(xleft, xright, ybottom, ytop) ==
    <<Abs(ybottom - ytop), Abs(xright - xleft)>>

\* abs((xright - xleft) / (ybottom - ytop)) * aspect_ratio, aspect_ratio = 1.0,
\* as the fraction <<numerator, denominator>>
AspectValue(xleft, xright, ybottom, ytop) == <<Abs(xright - xleft), Abs(ybottom - ytop)>>

FoldLabel(cp, i) ==
    "e" \o ToString(i) \o "\n" \o ToString(cp.fold_vector_points[i][1])
        \o "-" \o ToString(cp.fold_vector_points[i][2])

RECURSIVE Extend(_, _, _)
\* texts followed by more[0], more[1], ...
Extend(texts, more, k) ==
    IF k >= Len0(more) THEN texts ELSE Extend(Append0(texts, more[k]), more, k + 1)

plot_crease_pattern(ax, cp, color_map_name, annotate_folds, annotate_reference_points, annotate_faces) ==
    LET colors == FoldColors(cp, color_map_name)
        line_segments == [j \in 0 .. ZipLen(cp) - 1 |-> <<cp.p1[j], cp.p2[j]>>]
        line_segment_midpoints ==
            [j \in 0 .. ZipLen(cp) - 1 |->
                <<Half(cp.p1[j][1] + cp.p2[j][1]), Half(cp.p1[j][2] + cp.p2[j][2])>>]
        line_collection == [kind |-> "LineCollection", segments |-> line_segments,
                            colors |-> colors, linewidths |-> 1]
        markers == [kind |-> "PathCollection", offsets |-> cp.reference_points,
                    zorder |-> 2]
        fold_labels ==
            [i \in 0 .. Len0(line_segment_midpoints) - 1 |->
                [text |-> FoldLabel(cp, i), xy |-> line_segment_midpoints[i],
                 xytext |-> <<0, 0>>, fontweight |-> "bold"]]
        point_labels ==
            [i \in 0 .. Len0(cp.reference_points) - 1 |->
                [text |-> "v" \o ToString(i), xy |-> cp.reference_points[i],
                 xytext |-> <<0, 4>>, fontweight |-> "normal"]]
        face_labels ==
            [i \in 0 .. Len0(cp.face_centers) - 1 |->
                [text |-> "F" \o ToString(i), xy |-> cp.face_centers[i],
                 xytext |-> <<0, 0>>, fontweight |-> "normal"]]
        t0 == ax.texts
        t1 == IF annotate_folds THEN Extend(t0, fold_labels, 0) ELSE t0
        t2 == IF annotate_reference_points THEN Extend(t1, point_labels, 0) ELSE t1
        t3 == IF annotate_faces THEN Extend(t2, face_labels, 0) ELSE t2
    IN  [axes_2d |->
            [ax EXCEPT !.collections = Append0(Append0(ax.collections, line_collection),
                                               markers),
                       !.aspect = AspectValue(ax.xlim[1], ax.xlim[2],
                                              ax.ylim[1], ax.ylim[2]),
                       !.texts = t3],
         crease_pattern |-> cp,
         raised |-> NoException]

----------------------------------------------------------------------------
(* The calls.                                                              *)

Call(op, args, raised, cfm_args) ==
    [op |-> op, args |-> args, raised |-> raised, cfm_args |-> cfm_args]

NoCall == Call("none", << >>, NoException, << >>)

Angles == {-1, 0, 1}

\* the fold-angle vectors a caller passes: right, one short and one long
FoldAngleVectors(cp) ==
    {[j \in 0 .. n - 1 |-> a] :
        n \in {m \in {cp.num_folds - 1, cp.num_folds, cp.num_folds + 1} : m >= 0},
        a \in Angles}

\* colour map, alpha and edges of a call
DrawOptions == {<<"terrain", 100, FALSE>>, <<"Dark2", 50, TRUE>>}

PlotCustom(fold_angles, opt) ==
    \E r \in {plot_custom_configuration(axes_3d, crease_pattern, fold_angles,
                                       opt[1], opt[2], opt[3])} :
        /\ axes_3d' = r.axes_3d
        /\ crease_pattern' = r.crease_pattern
        /\ last' = Call("plot_custom_configuration",
                        [fold_angles |-> fold_angles, color_map_name |-> opt[1],
                         alpha |-> opt[2], edges |-> opt[3]],
                        r.raised, r.cfm_args)
        /\ UNCHANGED axes_2d

PlotReference ==
    \E r \in {plot_reference_configuration(axes_3d, crease_pattern)} :
        /\ axes_3d' = r.axes_3d
        /\ crease_pattern' = r.crease_pattern
        /\ last' = Call("plot_reference_configuration", << >>, r.raised, r.cfm_args)
        /\ UNCHANGED axes_2d

SetAxesEqual ==
    /\ axes_3d' = set_axes_equal(axes_3d)
    /\ last' = Call("set_axes_equal", << >>, NoException, << >>)
    /\ UNCHANGED <<crease_pattern, axes_2d>>

\* another part of the program attaches an artist of its own to the 3D axes
AttachForeign ==
    /\ Cardinality({k \in DOMAIN axes_3d.collections :
                        axes_3d.collections[k].kind = "foreign"}) < MaxForeign
    /\ axes_3d' = add_collection3d(axes_3d, [kind |-> "foreign"])
    /\ last' = Call("foreign", << >>, NoException, << >>)
    /\ UNCHANGED <<crease_pattern, axes_2d>>

\* annotate_folds, annotate_reference_points, annotate_faces
AnnotateChoices == {<<TRUE, TRUE, TRUE>>, <<FALSE, TRUE, FALSE>>}

PlotCreasePattern(color_map_name, ann) ==
    /\ Len0(axes_2d.collections) < 2 * MaxPlanarCalls
    /\ \E r \in {plot_crease_pattern(axes_2d, crease_pattern, color_map_name,
                                      ann[1], ann[2], ann[3])} :
           /\ axes_2d' = r.axes_2d
           /\ crease_pattern' = r.crease_pattern
           /\ last' = Call("plot_crease_pattern",
                           [color_map_name |-> color_map_name, annotate_folds |-> ann[1],
                            annotate_reference_points |-> ann[2],
                            annotate_faces |-> ann[3]],
                           r.raised, << >>)
    /\ UNCHANGED axes_3d

----------------------------------------------------------------------------
(* Initial states.                                                         *)

\* the numbers of valid corners of the faces: 4, 3 and 2 in rotation, from shift s
CornerPattern(nf, s) == [i \in 0 .. nf - 1 |-> 4 - ((i + s) % 3)]

\* fold j is a valley, a border or a mountain fold in rotation
RotatingTargets(nf) == [j \in 0 .. nf - 2 |-> (j % 3) - 1]

EmptyAxes3D(lims) == [collections |-> << >>, xlim |-> lims[1], ylim |-> lims[2],
                      zlim |-> lims[3]]

EmptyAxes2D(lims) == [collections |-> << >>, texts |-> << >>, xlim |-> lims[1],
                      ylim |-> lims[2], aspect |-> "auto"]

\* 3D axes set up as a drawing area (0, width) x (0, height) x (0, depth)
DrawingAreas == {<<<<0, 8>>, <<0, 16>>, <<0, 4>>>>}

\* 2D extents, the last with an inverted y axis
Extents2D == {<<<<0, 1>>, <<0, 1>>>>, <<<<0, 12>>, <<0, 6>>>>, <<<<-2, 4>>, <<9, -3>>>>}

\* strips of 1 to maxf faces, any face fixed, any rotation of the corner counts
Strips(maxf) ==
    UNION {{CreasePattern(nf, fixed, CornerPattern(nf, s), RotatingTargets(nf)) :
               fixed \in 0 .. nf - 1, s \in 0 .. 2} : nf \in 1 .. maxf}

\* longer strips, the middle face fixed
LongStrips(maxf) ==
    {CreasePattern(nf, nf \div 2, CornerPattern(nf, 0), RotatingTargets(nf)) :
        nf \in 1 .. maxf}

Init ==
    /\ crease_pattern \in Strips(MaxFaces)
    /\ axes_3d \in {EmptyAxes3D(l) : l \in DrawingAreas}
    /\ axes_2d = EmptyAxes2D(<<<<0, 1>>, <<0, 1>>>>)
    /\ last = NoCall

Next ==
    \/ \E fold_angles \in FoldAngleVectors(crease_pattern), opt \in DrawOptions :
          PlotCustom(fold_angles, opt)
    \/ PlotReference
    \/ SetAxesEqual
    \/ AttachForeign

Spec == Init /\ [][Next]_vars

\* the renderers alone, on longer strips
InitFaces ==
    /\ crease_pattern \in LongStrips(MaxStripFaces)
    /\ axes_3d \in {EmptyAxes3D(l) : l \in DrawingAreas}
    /\ axes_2d = EmptyAxes2D(<<<<0, 1>>, <<0, 1>>>>)
    /\ last = NoCall

NextFaces ==
    \/ \E fold_angles \in FoldAngleVectors(crease_pattern), opt \in DrawOptions :
          PlotCustom(fold_angles, opt)
    \/ PlotReference

SpecFaces == InitFaces /\ [][NextFaces]_vars

\* set_axes_equal alone, from a wider choice of axis limits (the two ends of
\* an axis have the same parity, which keeps mean and radius whole; the fifth
\* axis is inverted)
AxisExtents == {<<-1, 1>>, <<-5, 5>>, <<0, 2>>, <<0, 4>>, <<3, -1>>, <<2, 8>>}

InitAxes ==
    /\ crease_pattern \in LongStrips(1)
    /\ axes_3d \in {EmptyAxes3D(<<x, y, z>>) : x \in AxisExtents, y \in AxisExtents,
                                                z \in AxisExtents}
    /\ axes_2d = EmptyAxes2D(<<<<0, 1>>, <<0, 1>>>>)
    /\ last = NoCall

NextAxes == SetAxesEqual

SpecAxes == InitAxes /\ [][NextAxes]_vars

\* plot_crease_pattern alone, on strips with every assignment of the folds
PlanarPatterns(maxf) ==
    UNION {{CreasePattern(nf, 0, CornerPattern(nf, 0), target) :
               target \in [0 .. nf - 2 -> {-1, 0, 1}]} : nf \in 1 .. maxf}

InitPlanar ==
    /\ crease_pattern \in PlanarPatterns(MaxPlanarFaces)
    /\ axes_3d \in {EmptyAxes3D(l) : l \in DrawingAreas}
    /\ axes_2d \in {EmptyAxes2D(l) : l \in Extents2D}
    /\ last = NoCall

NextPlanar ==
    \E color_map_name \in {None} \cup ColorMaps, ann \in AnnotateChoices :
        PlotCreasePattern(color_map_name, ann)

SpecPlanar == InitPlanar /\ [][NextPlanar]_vars

\* the three builders on one model
InitAll ==
    /\ crease_pattern \in LongStrips(MaxAllFaces)
    /\ axes_3d \in {EmptyAxes3D(l) : l \in DrawingAreas}
    /\ axes_2d = EmptyAxes2D(<<<<0, 12>>, <<0, 6>>>>)
    /\ last = NoCall

NextAll == NextFaces \/ NextPlanar

SpecAll == InitAll /\ [][NextAll]_vars

----------------------------------------------------------------------------
(* What the claims speak of.                                               *)

\* the last call was a render that returned
Rendered ==
    /\ last.op \in {"plot_custom_configuration", "plot_reference_configuration"}
    /\ last.raised = NoException

\* the last call was plot_custom_configuration with a vector of the wrong length
Mismatched(call, cp) ==
    /\ call.op = "plot_custom_configuration"
    /\ Len0(call.args.fold_angles) # cp.num_folds

\* the arguments the last render ran with
LastAngles == last.cfm_args[1]

LastColorMap ==
    IF last.op = "plot_custom_configuration" THEN last.args.color_map_name ELSE "terrain"

LastAlpha == IF last.op = "plot_custom_configuration" THEN last.args.alpha ELSE 100

LastEdges == IF last.op = "plot_custom_configuration" THEN last.args.edges ELSE FALSE

\* the user-level error the length check is written to raise
InvalidInput == [type |-> "Error", msg |-> "Invalid number of fold angles"]

\* half the width and half the height of the drawing surface
half_drawing_width == Half(axes_3d.xlim[2] - axes_3d.xlim[1])

half_drawing_height == Half(axes_3d.ylim[2] - axes_3d.ylim[1])

\* the first three components of M applied to (x, y, 0, 1), moved by plus - minus
Placed(M, xy, plus, minus) ==
    LET t == Dot(M, <<xy[1], xy[2], 0, 1>>)
    IN  <<t[1] + plus[1] - minus[1], t[2] + plus[2] - minus[2], t[3] + plus[3] - minus[3]>>

FixedCenter == crease_pattern.face_centers[crease_pattern.fixed_face]

\* the offset the renderer adds: half of the upper x and y limits
SizeOffset == <<Half(axes_3d.xlim[2]), Half(axes_3d.ylim[2]), 0>>

\* the level of the palette at index i of n, characterised by its two bounds
IsLevelOf(level, i, n, N) == level * n <= i * N /\ i * N < (level + 1) * n

----------------------------------------------------------------------------
(* C1: a call of plot_custom_configuration with a fold-angle vector of the *)
(* wrong length fails with the InvalidInput error, leaves the axes as they *)
(* were and does not call compute_folding_map.                             *)
C1_FailsWithInvalidInput ==
    [][Mismatched(last', crease_pattern) =>
          /\ last'.raised = InvalidInput
          /\ axes_3d' = axes_3d
          /\ last'.cfm_args = << >>]_vars

\* a mismatched call has been made on axes that hold a collection
C1_Witness ==
    /\ Mismatched(last, crease_pattern)
    /\ last.raised.type = "NameError"
    /\ last.cfm_args = << >>
    /\ Len0(axes_3d.collections) = 1

(* C2: after a render that returned, the axes hold exactly one collection, *)
(* the polygon collection the call built; collections attached before,     *)
(* by a render or by anyone else, are gone.                                *)
C2_OneCollection ==
    Rendered =>
        /\ Len0(axes_3d.collections) = 1
        /\ \A k \in DOMAIN axes_3d.collections :
              /\ axes_3d.collections[k].kind = "Poly3DCollection"
              /\ Len0(axes_3d.collections[k].verts) = crease_pattern.num_faces
              /\ axes_3d.collections[k].alpha = LastAlpha
              /\ axes_3d.collections[k].edgecolor = (IF LastEdges THEN "k" ELSE None)
              /\ \A i \in DOMAIN axes_3d.collections[k].facecolor :
                    axes_3d.collections[k].facecolor[i].cmap = LastColorMap

\* a render that returned, with other options than the defaults
C2_Witness ==
    /\ Rendered
    /\ Len0(axes_3d.collections) = 1
    /\ LastAlpha = 50
    /\ crease_pattern.num_faces = 3

(* C3 as stated: a render of a vector of the right length produces         *)
(* num_faces polygons and num_faces colours, and the colours of distinct   *)
(* faces are distinct and strictly increasing along the palette.           *)
C3_DistinctColors ==
    Rendered =>
        \A k \in DOMAIN axes_3d.collections :
            /\ Len0(axes_3d.collections[k].verts) = crease_pattern.num_faces
            /\ Len0(axes_3d.collections[k].facecolor) = crease_pattern.num_faces
            /\ \A i, j \in DOMAIN axes_3d.collections[k].facecolor :
                  i < j => /\ axes_3d.collections[k].facecolor[i]
                                # axes_3d.collections[k].facecolor[j]
                           /\ axes_3d.collections[k].facecolor[i].level
                                < axes_3d.collections[k].facecolor[j].level

(* C3 as amended: a render of a vector of the right length produces        *)
(* num_faces polygons in face order, polygon i built from the valid        *)
(* corners of face i, and num_faces colours; colour i is the entry         *)
(* floor(N * i / num_faces) of the palette's table of N entries, so the    *)
(* colours never decrease along the palette by face index, and they are    *)
(* distinct and strictly increasing when num_faces <= N.                   *)
C3_ColorsByLevel ==
    Rendered =>
        \A k \in DOMAIN axes_3d.collections :
            LET col == axes_3d.collections[k]
                nf  == crease_pattern.num_faces
                N   == ColorMapLevels(LastColorMap)
            IN  /\ DOMAIN col.verts = 0 .. nf - 1
                /\ \A i \in 0 .. nf - 1 :
                      /\ DOMAIN col.verts[i] = 0 .. crease_pattern.num_face_corner_points[i] - 1
                      /\ \A c \in DOMAIN col.verts[i] :
                            col.verts[i][c] =
                                Placed(FaceTransform(crease_pattern, LastAngles, i),
                                       crease_pattern.face_corner_points[i][c],
                                       SizeOffset, Append(FixedCenter, 0))
                /\ DOMAIN col.facecolor = 0 .. nf - 1
                /\ \A i \in 0 .. nf - 1 :
                      /\ col.facecolor[i].cmap = LastColorMap
                      /\ IsLevelOf(col.facecolor[i].level, i, nf, N)
                /\ \A i, j \in 0 .. nf - 1 :
                      i < j => /\ col.facecolor[i].level <= col.facecolor[j].level
                               /\ nf <= N => col.facecolor[i].level < col.facecolor[j].level

\* a render of more faces than the palette has entries
C3_Witness ==
    /\ Rendered
    /\ Len0(axes_3d.collections) = 1
    /\ crease_pattern.num_faces > ColorMapLevels(LastColorMap)
    /\ \E a \in DOMAIN LastAngles : LastAngles[a] # 0

(* C4: after a render, the centroid of the fixed face, transformed by the  *)
(* fixed face's composite transform and recentred as the renderer          *)
(* recentres every polygon, is (half_drawing_width, half_drawing_height, 0) *)
C4_FixedCentroidAtCenter ==
    Rendered =>
        Placed(compute_folding_map(crease_pattern, LastAngles)[crease_pattern.fixed_face],
               FixedCenter, SizeOffset, Append(FixedCenter, 0))
          = <<half_drawing_width, half_drawing_height, 0>>

\* a render on axes whose lower x limit is not 0
C4_Witness ==
    /\ Rendered
    /\ axes_3d.xlim[1] # 0
    /\ crease_pattern.fixed_face # 0
    /\ \E a \in DOMAIN LastAngles : LastAngles[a] # 0

(* C5: plot_reference_configuration leaves the axes as                     *)
(* plot_custom_configuration with the all-zero vector of length num_folds  *)
(* and the default palette, alpha and edges leaves them, and it never      *)
(* fails the length check, also when num_folds is 0.                       *)
C5_ReferenceIsZeroFold ==
    last.op = "plot_reference_configuration" =>
        LET zeros == [j \in 0 .. crease_pattern.num_folds - 1 |-> 0]
            r == plot_custom_configuration(axes_3d, crease_pattern, zeros, "terrain", 100, FALSE)
        IN  /\ last.raised = NoException
            /\ r.raised = NoException
            /\ last.cfm_args = <<zeros>>
            /\ axes_3d = r.axes_3d

\* the reference renderer has run on a pattern with no fold
C5_Witness ==
    /\ last.op = "plot_reference_configuration"
    /\ last.raised = NoException
    /\ crease_pattern.num_folds = 0
    /\ Len0(axes_3d.collections) = 1

(* C6: in plot_crease_pattern without a palette name there is one colour   *)
(* per fold: the valley colour iff the target angle is < 0, the mountain   *)
(* colour iff it is > 0, the border colour iff it is 0.  With a palette    *)
(* name the target angles play no part: colour i is the palette's value    *)
(* of index i over [0, num_folds).                                         *)
C6_FoldColors ==
    last.op = "plot_crease_pattern" =>
        LET line_collection == axes_2d.collections[Len0(axes_2d.collections) - 2]
            colors == line_collection.colors
            nfolds == crease_pattern.num_folds
            name   == last.args.color_map_name
        IN  /\ line_collection.kind = "LineCollection"
            /\ DOMAIN colors = 0 .. nfolds - 1
            /\ name = None =>
                  \A i \in 0 .. nfolds - 1 :
                      /\ colors[i] = <<0, 0, 1>> <=> crease_pattern.fold_angle_target[i] < 0
                      /\ colors[i] = <<1, 0, 0>> <=> crease_pattern.fold_angle_target[i] > 0
                      /\ colors[i] = <<0, 0, 0>> <=> crease_pattern.fold_angle_target[i] = 0
            /\ name # None =>
                  \A i \in 0 .. nfolds - 1 :
                      /\ colors[i].cmap = name
                      /\ IsLevelOf(colors[i].level, i, nfolds, ColorMapLevels(name))

\* the default colours of a pattern with a fold of each sign
C6_Witness ==
    /\ last.op = "plot_crease_pattern"
    /\ last.args.color_map_name = None
    /\ \E i, j, k \in DOMAIN crease_pattern.fold_angle_target :
          /\ crease_pattern.fold_angle_target[i] < 0
          /\ crease_pattern.fold_angle_target[j] > 0
          /\ crease_pattern.fold_angle_target[k] = 0

\* the largest of the three spans of the axes
MaxSpan(ax) ==
    Max2(Abs(ax.xlim[2] - ax.xlim[1]),
         Max2(Abs(ax.ylim[2] - ax.ylim[1]), Abs(ax.zlim[2] - ax.zlim[1])))

\* new is [m - r, m + r], m the midpoint of old and r half of span
CenteredOn(new, old, span) ==
    /\ 2 * new[1] = old[1] + old[2] - span
    /\ 2 * new[2] = old[1] + old[2] + span
    /\ new[2] - new[1] = span
    /\ new[1] + new[2] = old[1] + old[2]

(* C7: set_axes_equal sets the limits of each axis to [m - r, m + r], m    *)
(* the midpoint of the axis before the call and r half of the largest of   *)
(* the three spans before the call; the three axes then have the span 2r   *)
(* and their midpoints are unchanged; x = [-1, 1], y = [-5, 5], z = [0, 2] *)
(* become x = [-5, 5], y = [-5, 5], z = [-4, 6].                           *)
C7_AxesEqual ==
    [][last'.op = "set_axes_equal" =>
          /\ CenteredOn(axes_3d'.xlim, axes_3d.xlim, MaxSpan(axes_3d))
          /\ CenteredOn(axes_3d'.ylim, axes_3d.ylim, MaxSpan(axes_3d))
          /\ CenteredOn(axes_3d'.zlim, axes_3d.zlim, MaxSpan(axes_3d))
          /\ axes_3d'.collections = axes_3d.collections
          /\ (/\ axes_3d.xlim = <<-1, 1>>
              /\ axes_3d.ylim = <<-5, 5>>
              /\ axes_3d.zlim = <<0, 2>>)
             => /\ axes_3d'.xlim = <<-5, 5>>
                /\ axes_3d'.ylim = <<-5, 5>>
                /\ axes_3d'.zlim = <<-4, 6>>]_vars

\* set_axes_equal has run and left the axes of the example
C7_Witness ==
    /\ last.op = "set_axes_equal"
    /\ axes_3d.xlim = <<-5, 5>>
    /\ axes_3d.ylim = <<-5, 5>>
    /\ axes_3d.zlim = <<-4, 6>>

(* C8 as stated: plot_crease_pattern sets the aspect so that one data unit *)
(* in x is as long as one data unit in y, whatever the extents of the axes *)
C8_EqualUnits ==
    last.op = "plot_crease_pattern" => axes_2d.aspect[1] = axes_2d.aspect[2]

(* C8 as amended: plot_crease_pattern sets the aspect to                   *)
(* |xright - xleft| / |ybottom - ytop| of the extents it reads, which      *)
(* makes the plot box square: the y extent, at aspect times the length of  *)
(* an x unit per y unit, is as long as the x extent.  One x unit is as     *)
(* long as one y unit only when the two extents are equal.                 *)
C8_SquareBox ==
    last.op = "plot_crease_pattern" =>
        LET width  == Abs(axes_2d.xlim[2] - axes_2d.xlim[1])
            height == Abs(axes_2d.ylim[2] - axes_2d.ylim[1])
        IN  /\ axes_2d.aspect[1] > 0
            /\ axes_2d.aspect[2] > 0
            /\ axes_2d.aspect[1] * height = axes_2d.aspect[2] * width
            /\ axes_2d.aspect[1] = axes_2d.aspect[2] <=> width = height

\* plot_crease_pattern has run twice on axes twice as wide as high
C8_Witness ==
    /\ last.op = "plot_crease_pattern"
    /\ Len0(axes_2d.collections) = 4
    /\ axes_2d.xlim = <<0, 12>>
    /\ axes_2d.ylim = <<0, 6>>

(* C9: no builder changes the model: across every call of                  *)
(* plot_reference_configuration, plot_custom_configuration and             *)
(* plot_crease_pattern every attribute of the crease pattern keeps its     *)
(* value.                                                                  *)
C9_ModelUnchanged == [][crease_pattern' = crease_pattern]_vars

\* a folded render of two faces after a planar drawing
C9_Witness ==
    /\ Rendered
    /\ crease_pattern.num_faces >= 2
    /\ \E a \in DOMAIN LastAngles : LastAngles[a] # 0
    /\ Len0(axes_2d.collections) > 0

(* C10: after a render, polygon i has num_face_corner_points[i] vertices,  *)
(* and vertex c is the first three components of face_map[i] applied to    *)
(* (x, y, 0, 1), plus (half_drawing_width, half_drawing_height, 0), minus  *)
(* the centroid of the fixed face lifted to z = 0.                         *)
C10_VertexFormula ==
    Rendered =>
        \A k \in DOMAIN axes_3d.collections :
            \A i \in 0 .. crease_pattern.num_faces - 1 :
                /\ DOMAIN axes_3d.collections[k].verts[i]
                      = 0 .. crease_pattern.num_face_corner_points[i] - 1
                /\ \A c \in 0 .. crease_pattern.num_face_corner_points[i] - 1 :
                      axes_3d.collections[k].verts[i][c] =
                          Placed(compute_folding_map(crease_pattern, LastAngles)[i],
                                 crease_pattern.face_corner_points[i][c],
                                 <<half_drawing_width, half_drawing_height, 0>>,
                                 Append(FixedCenter, 0))

\* a folded render with a face of two corners, on axes whose lower x limit is not 0
C10_Witness ==
    /\ Rendered
    /\ axes_3d.xlim[1] # 0
    /\ \E i \in DOMAIN crease_pattern.num_face_corner_points :
          crease_pattern.num_face_corner_points[i] < 3
    /\ \E a \in DOMAIN LastAngles : LastAngles[a] # 0

====
